---------------------------- MODULE Spec2Model ----------------------------
(***************************************************************************)
(* fast_vec: Vector2 (f64x2) and Vector3 (f64x4 with one padding lane).    *)
(*                                                                         *)
(* The lanes are IEEE-754 binary floating-point numbers.  f64 carries 53   *)
(* significand bits and an 11 bit exponent; the model keeps every rule of  *)
(* the format (signed zeros, subnormals, infinities, NaN, round to nearest *)
(* ties to even, overflow to infinity, gradual underflow) and shrinks only *)
(* the significand to PrecBits bits and the exponent range to              *)
(* -FracBits .. ExpMax - FracBits.                                         *)
(*                                                                         *)
(* A finite magnitude is an integer n, the value being n / 2^FracBits,     *)
(* with n = m * 2^e, 0 <= m < 2^PrecBits, 0 <= e <= ExpMax.                *)
(***************************************************************************)
EXTENDS Integers, Sequences, FiniteSets

VARIABLES kind, a

vars == <<kind, a>>

\* Significand bits of the model's float format (f64: 53).
PrecBits == 2
\* Fraction bits below 1.0: the smallest positive float is 2^-FracBits.
FracBits == 1
\* Binades above the lowest one: the largest finite float is
\* (2^PrecBits - 1) * 2^(ExpMax - FracBits).
ExpMax == 1

RECURSIVE Pow2(_)
Pow2(k) == IF k = 0 THEN 1 ELSE 2 * Pow2(k - 1)

\* The finite magnitudes, in units of 2^-FracBits.
Mags == {m * Pow2(e) : m \in 0..(Pow2(PrecBits) - 1), e \in 0..ExpMax}

NMag == Cardinality(Mags)

MaxMag == (Pow2(PrecBits) - 1) * Pow2(ExpMax)

\* The magnitude one step above MaxMag, were the exponent range unbounded:
\* a result that rounds to it overflows to infinity.
OverMag == Pow2(PrecBits) * Pow2(ExpMax)

RankOf(n) == Cardinality({r \in Mags : r <= n})

MagOf == [r \in 1..NMag |-> CHOOSE n \in Mags : RankOf(n) = r]

(***************************************************************************)
(* A float is a code in 0 .. 2*NMag+2:                                     *)
(*   0                  NaN                                                *)
(*   r in 1..NMag       +MagOf[r]   (1 is +0.0)                            *)
(*   NMag+1             +infinity                                          *)
(*   NMag+1+r           -MagOf[r]   (NMag+2 is -0.0)                       *)
(*   2*NMag+2           -infinity                                          *)
(***************************************************************************)
NaN == 0

PosInf == NMag + 1

NegInf == 2 * NMag + 2

Floats == 0..NegInf

Sign(c) == IF c > PosInf THEN 1 ELSE 0

AbsF(c) == IF c > PosInf THEN c - PosInf ELSE c

IsNaN(c) == c = NaN

IsInf(c) == AbsF(c) = PosInf

IsFinite(c) == c # NaN /\ AbsF(c) # PosInf

IsZero(c) == AbsF(c) = 1

\* The magnitude of a finite float, in units of 2^-FracBits.
MagF(c) == MagOf[AbsF(c)]

Fin(s, n) == s * PosInf + RankOf(n)

Inf(s) == s * PosInf + PosInf

Zero == Fin(0, 0)

NegZero == Fin(1, 0)

One == Fin(0, Pow2(FracBits))

Xor(s, t) == IF s = t THEN 0 ELSE 1

Max(S) == CHOOSE x \in S : \A y \in S : y <= x

Min(S) == CHOOSE x \in S : \A y \in S : x <= y

\* The neighbour of lo and hi (adjacent magnitudes) that a tie rounds to:
\* the one whose significand is even.
TieEven(lo, hi) == IF (lo \div (hi - lo)) % 2 = 0 THEN lo ELSE hi

\* num/den (units of 2^-FracBits, den > 0) rounded to nearest, ties to
\* even; OverMag when the result overflows.
RoundMag(num, den) ==
    LET lo == Max({r \in Mags : r * den <= num})
        up == {r \in Mags : r * den > num}
        hi == IF up = {} THEN OverMag ELSE Min(up)
    IN  IF lo * den = num THEN lo
        ELSE IF 2 * num < (lo + hi) * den THEN lo
        ELSE IF 2 * num > (lo + hi) * den THEN hi
        ELSE TieEven(lo, hi)

\* The float of sign s nearest to num/den.
Rounded(s, num, den) ==
    LET m == RoundMag(num, den)
    IN  IF m > MaxMag THEN Inf(s) ELSE Fin(s, m)

\* sqrt(x) for x the square of a magnitude in units, rounded to nearest.
RoundSqrt(x) ==
    LET lo == Max({r \in Mags : r * r <= x})
        up == {r \in Mags : r * r > x}
        hi == IF up = {} THEN OverMag ELSE Min(up)
    IN  IF lo * lo = x THEN lo
        ELSE IF 4 * x < (lo + hi) * (lo + hi) THEN lo
        ELSE IF 4 * x > (lo + hi) * (lo + hi) THEN hi
        ELSE TieEven(lo, hi)

SignedMag(c) == IF Sign(c) = 1 THEN 0 - MagF(c) ELSE MagF(c)

AddF(x, y) ==
    IF IsNaN(x) \/ IsNaN(y) THEN NaN
    ELSE IF IsInf(x) /\ IsInf(y) THEN (IF x = y THEN x ELSE NaN)
    ELSE IF IsInf(x) THEN x
    ELSE IF IsInf(y) THEN y
    ELSE LET s == SignedMag(x) + SignedMag(y)
         IN  IF s = 0
             THEN (IF Sign(x) = 1 /\ Sign(y) = 1 THEN NegZero ELSE Zero)
             ELSE IF s < 0 THEN Rounded(1, 0 - s, 1)
             ELSE Rounded(0, s, 1)

NegF(x) ==
    IF IsNaN(x) THEN NaN
    ELSE IF Sign(x) = 1 THEN x - PosInf ELSE x + PosInf

MulF(x, y) ==
    IF IsNaN(x) \/ IsNaN(y) THEN NaN
    ELSE IF (IsInf(x) /\ IsZero(y)) \/ (IsZero(x) /\ IsInf(y)) THEN NaN
    ELSE IF IsInf(x) \/ IsInf(y) THEN Inf(Xor(Sign(x), Sign(y)))
    ELSE Rounded(Xor(Sign(x), Sign(y)), MagF(x) * MagF(y), Pow2(FracBits))

DivF(x, y) ==
    IF IsNaN(x) \/ IsNaN(y) THEN NaN
    ELSE IF (IsInf(x) /\ IsInf(y)) \/ (IsZero(x) /\ IsZero(y)) THEN NaN
    ELSE IF IsInf(x) \/ IsZero(y) THEN Inf(Xor(Sign(x), Sign(y)))
    ELSE IF IsInf(y) THEN Fin(Xor(Sign(x), Sign(y)), 0)
    ELSE Rounded(Xor(Sign(x), Sign(y)), MagF(x) * Pow2(FracBits), MagF(y))

SqrtF(x) ==
    IF IsNaN(x) THEN NaN
    ELSE IF IsZero(x) THEN x
    ELSE IF Sign(x) = 1 THEN NaN
    ELSE IF IsInf(x) THEN x
    ELSE Fin(0, RoundSqrt(MagF(x) * Pow2(FracBits)))

\* The operations as tables over the codes (each entry computed once).
AddT == [x \in Floats |-> [y \in Floats |-> AddF(x, y)]]

MulT == [x \in Floats |-> [y \in Floats |-> MulF(x, y)]]

DivT == [x \in Floats |-> [y \in Floats |-> DivF(x, y)]]

SqrtT == [x \in Floats |-> SqrtF(x)]

FAdd(x, y) == AddT[x][y]

FNeg(x) == NegF(x)

FSub(x, y) == AddT[x][NegF(y)]

FMul(x, y) == MulT[x][y]

FDiv(x, y) == DivT[x][y]

FSqrt(x) == SqrtT[x]

\* f64 `==`: false when either side is NaN, and -0.0 == 0.0.
EqF(x, y) == x # NaN /\ y # NaN /\ (x = y \/ (IsZero(x) /\ IsZero(y)))

EqT == [x \in Floats |-> [y \in Floats |-> EqF(x, y)]]

FEq(x, y) == EqT[x][y]

\* The same value: both NaN, or equal under f64 `==`.
SameVal(x, y) == (x = NaN /\ y = NaN) \/ FEq(x, y)

Half == Fin(0, Pow2(FracBits - 1))

OneAndHalf == Fin(0, 3 * Pow2(FracBits - 1))

(***************************************************************************)
(* std::simd lane-wise arithmetic on the first n lanes.                    *)
(***************************************************************************)
SimdAdd(n, u, w) == [i \in 1..n |-> FAdd(u[i], w[i])]

SimdSub(n, u, w) == [i \in 1..n |-> FSub(u[i], w[i])]

SimdMul(n, u, w) == [i \in 1..n |-> FMul(u[i], w[i])]

SimdDiv(n, u, w) == [i \in 1..n |-> FDiv(u[i], w[i])]

SimdNeg(n, u) == [i \in 1..n |-> FNeg(u[i])]

Splat(n, s) == [i \in 1..n |-> s]

\* SimdFloat::reduce_sum of an f64x4: the ordered sum of the four lanes,
\* starting from -0.0.
ReduceSum(p) == FAdd(FAdd(FAdd(FAdd(NegZero, p[1]), p[2]), p[3]), p[4])

(***************************************************************************)
(* Vector3: lanes 1..3 are x, y, z and lane 4 is the padding lane.         *)
(***************************************************************************)
New3(x, y, z) == <<x, y, z, Zero>>

Zeros3 == <<Zero, Zero, Zero, Zero>>

Ones3 == <<One, One, One, Zero>>

X3(v) == v[1]

Y3(v) == v[2]

Z3(v) == v[3]

SetX3(v, x) == [v EXCEPT ![1] = x]

\* set_y writing the neighbouring lane.
SetY3WrongLane(v, y) == [v EXCEPT ![3] = y]

SetY3(v, y) == [v EXCEPT ![2] = y]

SetZ3(v, z) == [v EXCEPT ![3] = z]

\* dot that multiplies the receiver with itself.
Dot3OfSelf(v, rhs) == ReduceSum(SimdMul(4, v, v))

Dot3(v, rhs) == ReduceSum(SimdMul(4, v, rhs))

MagnitudeSquared3(v) == ReduceSum(SimdMul(4, v, v))

\* magnitude without the square root.
Magnitude3NoSqrt(v) == MagnitudeSquared3(v)

Magnitude3(v) == FSqrt(MagnitudeSquared3(v))

\* + that leaves the receiver's z lane as it was.
Add3KeepZ(v, rhs) ==
    <<FAdd(v[1], rhs[1]), FAdd(v[2], rhs[2]), v[3], FAdd(v[4], rhs[4])>>

Add3(v, rhs) == SimdAdd(4, v, rhs)

Sub3(v, rhs) == SimdSub(4, v, rhs)

\* Scalar multiplication that leaves the z lane unscaled.
Mul3SkipZ(v, s) == <<FMul(v[1], s), FMul(v[2], s), v[3], FMul(v[4], s)>>

Mul3(v, s) == SimdMul(4, v, Splat(4, s))

MulLeft3(s, v) == Mul3(v, s)

\* Division that leaves the vector alone when the divisor is zero.
Div3Guarded(v, s) ==
    IF IsZero(s) THEN v ELSE SimdMul(4, v, Splat(4, FDiv(One, s)))

Div3(v, s) == SimdMul(4, v, Splat(4, FDiv(One, s)))

\* Negation that forgets the z lane.
Neg3XYOnly(v) == <<FNeg(v[1]), FNeg(v[2]), v[3], v[4]>>

Neg3(v) == SimdNeg(4, v)

AddAssign3(v, rhs) == SimdAdd(4, v, rhs)

SubAssign3(v, rhs) == SimdSub(4, v, rhs)

MulAssign3(v, s) == SimdMul(4, v, Splat(4, s))

DivAssign3(v, s) == SimdDiv(4, v, Splat(4, s))

\* normalize without the zero-magnitude branch.
Normalize3NoGuard(v) == Mul3(v, FDiv(One, Magnitude3(v)))

Normalize3(v) ==
    LET mag == Magnitude3(v)
    IN  IF FEq(mag, Zero) THEN Zeros3 ELSE Mul3(v, FDiv(One, mag))

\* cross with the z component's subtraction written as an addition.
Cross3PlusZ(v, rhs) ==
    << FSub(FMul(v[2], rhs[3]), FMul(v[3], rhs[2])),
       FSub(FMul(v[3], rhs[1]), FMul(v[1], rhs[3])),
       FAdd(FMul(v[1], rhs[2]), FMul(v[2], rhs[1])),
       Zero >>

\* cross that carries the receiver's padding lane into the result.
Cross3KeepPadding(v, rhs) ==
    << FSub(FMul(v[2], rhs[3]), FMul(v[3], rhs[2])),
       FSub(FMul(v[3], rhs[1]), FMul(v[1], rhs[3])),
       FSub(FMul(v[1], rhs[2]), FMul(v[2], rhs[1])),
       v[4] >>

Cross3(v, rhs) ==
    << FSub(FMul(v[2], rhs[3]), FMul(v[3], rhs[2])),
       FSub(FMul(v[3], rhs[1]), FMul(v[1], rhs[3])),
       FSub(FMul(v[1], rhs[2]), FMul(v[2], rhs[1])),
       Zero >>

\* distance taken of the sum instead of the difference.
Distance3OfSum(v, rhs) == Magnitude3(Add3(v, rhs))

Distance3(v, rhs) == Magnitude3(Sub3(v, rhs))

DistanceSquared3(v, rhs) == MagnitudeSquared3(Sub3(v, rhs))

\* Equality that also compares the padding lane.
Eq3AllLanes(v, other) == \A i \in 1..4 : FEq(v[i], other[i])

Eq3(v, other) ==
    FEq(v[1], other[1]) /\ FEq(v[2], other[2]) /\ FEq(v[3], other[3])

(***************************************************************************)
(* Vector2: an f64x2, lanes 1..2 are x and y.                              *)
(***************************************************************************)
New2(x, y) == <<x, y>>

Zeros2 == Splat(2, Zero)

\* ones() hands f64x2::from_array the four-element array literal
\* [1.0, 1.0, 0.0, 0.0]: the value carries four lanes where the type has
\* two.  The lane-wise operations of f64x2 read and write lanes 1..2 only;
\* the setters write one lane and keep the others.
Ones2 == <<One, One, Zero, Zero>>

X2(v) == v[1]

Y2(v) == v[2]

SetX2(v, x) == [v EXCEPT ![1] = x]

SetY2(v, y) == [v EXCEPT ![2] = y]

Dot2(v, rhs) ==
    LET prod == SimdMul(2, v, rhs)
    IN  FAdd(prod[1], prod[2])

MagnitudeSquared2(v) == Dot2(v, v)

Magnitude2(v) == FSqrt(MagnitudeSquared2(v))

Add2(v, rhs) == SimdAdd(2, v, rhs)

Sub2(v, rhs) == SimdSub(2, v, rhs)

Mul2(v, s) == SimdMul(2, v, Splat(2, s))

MulLeft2(s, v) == Mul2(v, s)

Div2(v, s) == SimdDiv(2, v, Splat(2, s))

Neg2(v) == SimdNeg(2, v)

AddAssign2(v, rhs) == SimdAdd(2, v, rhs)

SubAssign2(v, rhs) == SimdSub(2, v, rhs)

MulAssign2(v, s) == SimdMul(2, v, Splat(2, s))

DivAssign2(v, s) == SimdDiv(2, v, Splat(2, s))

Normalize2(v) ==
    LET mag == Magnitude2(v)
    IN  IF FEq(mag, Zero) THEN Zeros2 ELSE Mul2(v, FDiv(One, mag))

Cross2(v, rhs) == FSub(FMul(X2(v), Y2(rhs)), FMul(Y2(v), X2(rhs)))

Distance2(v, rhs) == Magnitude2(Sub2(v, rhs))

DistanceSquared2(v, rhs) == MagnitudeSquared2(Sub2(v, rhs))

Eq2(v, other) == FEq(v[1], other[1]) /\ FEq(v[2], other[2])

(***************************************************************************)
(* The program: one vector value `a` of type Vector<kind>, built by new()  *)
(* and then driven through the public operations.  An operator that        *)
(* returns a new vector is followed by rebinding (a = a * s); the          *)
(* operations that return a scalar or a bool (dot, magnitude, distance,    *)
(* cross of Vector2, ==, the getters) leave `a` as it is and appear as     *)
(* operators in the properties.                                            *)
(***************************************************************************)

\* Scalar arguments of the actions.
Scalars == {Zero, OneAndHalf, FNeg(Half), PosInf, NaN}

\* Components of the vectors new() builds after the start.
Inputs == {Zero, OneAndHalf}

\* Right-hand operands of the binary vector operations.
Operands3 == {Ones3, New3(OneAndHalf, Zero, FNeg(One)), New3(PosInf, Half, NaN)}

Operands2 == {New2(One, One), New2(OneAndHalf, FNeg(One)), New2(PosInf, NaN)}

Init ==
    \/ /\ kind = 3
       /\ \E x \in Floats, y \in Floats, z \in Floats : a = New3(x, y, z)
    \/ /\ kind = 2
       /\ \E x \in Floats, y \in Floats : a = New2(x, y)

V3New ==
    /\ kind = 3
    /\ \E x \in Inputs, y \in Inputs, z \in Inputs : a' = New3(x, y, z)
    /\ UNCHANGED kind

V3Zeros == kind = 3 /\ a' = Zeros3 /\ UNCHANGED kind

V3Ones == kind = 3 /\ a' = Ones3 /\ UNCHANGED kind

V3SetX == kind = 3 /\ (\E x \in Scalars : a' = SetX3(a, x)) /\ UNCHANGED kind

V3SetY == kind = 3 /\ (\E y \in Scalars : a' = SetY3(a, y)) /\ UNCHANGED kind

V3SetZ == kind = 3 /\ (\E z \in Scalars : a' = SetZ3(a, z)) /\ UNCHANGED kind

V3Add == kind = 3 /\ (\E b \in Operands3 : a' = Add3(a, b)) /\ UNCHANGED kind

V3Sub == kind = 3 /\ (\E b \in Operands3 : a' = Sub3(a, b)) /\ UNCHANGED kind

V3Mul == kind = 3 /\ (\E s \in Scalars : a' = Mul3(a, s)) /\ UNCHANGED kind

V3MulLeft ==
    kind = 3 /\ (\E s \in Scalars : a' = MulLeft3(s, a)) /\ UNCHANGED kind

V3Div == kind = 3 /\ (\E s \in Scalars : a' = Div3(a, s)) /\ UNCHANGED kind

V3Neg == kind = 3 /\ a' = Neg3(a) /\ UNCHANGED kind

V3AddAssign ==
    kind = 3 /\ (\E b \in Operands3 : a' = AddAssign3(a, b)) /\ UNCHANGED kind

V3SubAssign ==
    kind = 3 /\ (\E b \in Operands3 : a' = SubAssign3(a, b)) /\ UNCHANGED kind

V3MulAssign ==
    kind = 3 /\ (\E s \in Scalars : a' = MulAssign3(a, s)) /\ UNCHANGED kind

V3DivAssign ==
    kind = 3 /\ (\E s \in Scalars : a' = DivAssign3(a, s)) /\ UNCHANGED kind

V3Normalize == kind = 3 /\ a' = Normalize3(a) /\ UNCHANGED kind

V3Cross ==
    kind = 3 /\ (\E b \in Operands3 : a' = Cross3(a, b)) /\ UNCHANGED kind

V2New ==
    /\ kind = 2
    /\ \E x \in Inputs, y \in Inputs : a' = New2(x, y)
    /\ UNCHANGED kind

V2Zeros == kind = 2 /\ a' = Zeros2 /\ UNCHANGED kind

V2Ones == kind = 2 /\ a' = Ones2 /\ UNCHANGED kind

V2SetX == kind = 2 /\ (\E x \in Scalars : a' = SetX2(a, x)) /\ UNCHANGED kind

V2SetY == kind = 2 /\ (\E y \in Scalars : a' = SetY2(a, y)) /\ UNCHANGED kind

V2Add == kind = 2 /\ (\E b \in Operands2 : a' = Add2(a, b)) /\ UNCHANGED kind

V2Sub == kind = 2 /\ (\E b \in Operands2 : a' = Sub2(a, b)) /\ UNCHANGED kind

V2Mul == kind = 2 /\ (\E s \in Scalars : a' = Mul2(a, s)) /\ UNCHANGED kind

V2MulLeft ==
    kind = 2 /\ (\E s \in Scalars : a' = MulLeft2(s, a)) /\ UNCHANGED kind

V2Div == kind = 2 /\ (\E s \in Scalars : a' = Div2(a, s)) /\ UNCHANGED kind

V2Neg == kind = 2 /\ a' = Neg2(a) /\ UNCHANGED kind

V2AddAssign ==
    kind = 2 /\ (\E b \in Operands2 : a' = AddAssign2(a, b)) /\ UNCHANGED kind

V2SubAssign ==
    kind = 2 /\ (\E b \in Operands2 : a' = SubAssign2(a, b)) /\ UNCHANGED kind

V2MulAssign ==
    kind = 2 /\ (\E s \in Scalars : a' = MulAssign2(a, s)) /\ UNCHANGED kind

V2DivAssign ==
    kind = 2 /\ (\E s \in Scalars : a' = DivAssign2(a, s)) /\ UNCHANGED kind

V2Normalize == kind = 2 /\ a' = Normalize2(a) /\ UNCHANGED kind

Next ==
    \/ V3New \/ V3Zeros \/ V3Ones \/ V3SetX \/ V3SetY \/ V3SetZ
    \/ V3Add \/ V3Sub \/ V3Mul \/ V3MulLeft \/ V3Div \/ V3Neg
    \/ V3AddAssign \/ V3SubAssign \/ V3MulAssign \/ V3DivAssign
    \/ V3Normalize \/ V3Cross
    \/ V2New \/ V2Zeros \/ V2Ones \/ V2SetX \/ V2SetY
    \/ V2Add \/ V2Sub \/ V2Mul \/ V2MulLeft \/ V2Div \/ V2Neg
    \/ V2AddAssign \/ V2SubAssign \/ V2MulAssign \/ V2DivAssign
    \/ V2Normalize

Spec == Init /\ [][Next]_vars

(***************************************************************************)
(* Properties.                                                             *)
(***************************************************************************)
Active == IF kind = 3 THEN 1..3 ELSE 1..2

FiniteActive == \A i \in Active : IsFinite(a[i])

NonZeroActive == \A i \in Active : ~IsZero(a[i])

\* C1: after any sequence of constructing and mutating operations the
\* padding lane (lane 4) of a Vector3 is 0.0 (-0.0 == 0.0 counts as 0.0).
C1_PaddingIsZero == kind = 3 => FEq(a[4], Zero)

\* x1*x2 + y1*y2 + z1*z2, from the active lanes alone.
ActiveDot3(v, rhs) ==
    FAdd(FAdd(FMul(v[1], rhs[1]), FMul(v[2], rhs[2])), FMul(v[3], rhs[3]))

\* C2: a.dot(b) of two Vector3 values is x1*x2 + y1*y2 + z1*z2 of the
\* active lanes; the padding lane does not change the result.
C2_DotOverActiveLanes ==
    kind = 3 =>
        \A b \in Operands3 \cup {a} :
            /\ SameVal(Dot3(a, b), ActiveDot3(a, b))
            /\ SameVal(Dot3(b, a), ActiveDot3(b, a))

\* C3: the receiver after a += b, a -= b, a *= s, a /= s holds exactly the
\* lanes of the value a + b, a - b, a * s, a / s returns (both types).
C3_CompoundAssignSameAsOperator ==
    /\ kind = 3 =>
        /\ \A b \in Operands3 \cup {a} :
              /\ AddAssign3(a, b) = Add3(a, b)
              /\ SubAssign3(a, b) = Sub3(a, b)
        /\ \A s \in Floats :
              /\ MulAssign3(a, s) = Mul3(a, s)
              /\ DivAssign3(a, s) = Div3(a, s)
    /\ kind = 2 =>
        /\ \A b \in Operands2 \cup {a} :
              /\ AddAssign2(a, b) = Add2(a, b)
              /\ SubAssign2(a, b) = Sub2(a, b)
        /\ \A s \in Floats :
              /\ MulAssign2(a, s) = Mul2(a, s)
              /\ DivAssign2(a, s) = Div2(a, s)

\* C4: normalize(a) is the all-zero vector (every lane +0.0, never NaN)
\* when magnitude(a) is exactly 0.0, and a * (1/magnitude(a)) when
\* magnitude(a) != 0.0 (both types).
C4_Normalize ==
    /\ kind = 3 =>
        /\ FEq(Magnitude3(a), Zero) => Normalize3(a) = Zeros3
        /\ ~FEq(Magnitude3(a), Zero) =>
              Normalize3(a) = Mul3(a, FDiv(One, Magnitude3(a)))
        /\ Normalize3(Zeros3) = Zeros3
    /\ kind = 2 =>
        /\ FEq(Magnitude2(a), Zero) => Normalize2(a) = Zeros2
        /\ ~FEq(Magnitude2(a), Zero) =>
              Normalize2(a) = Mul2(a, FDiv(One, Magnitude2(a)))
        /\ Normalize2(Zeros2) = Zeros2

\* A Vector3 with a non-zero lane whose magnitude is exactly 0.0 (its
\* squares underflow), and which normalize sends to zeros().
C4_Witness ==
    /\ kind = 3
    /\ a # Zeros3
    /\ \E i \in 1..3 : ~IsZero(a[i])
    /\ FEq(Magnitude3(a), Zero)
    /\ Normalize3(a) = Zeros3

\* C5: == holds iff the active lanes are pairwise equal (f64 ==), whatever
\* the padding lanes hold: against every vector that differs from `a` in
\* one lane, == is true exactly when that lane is the padding lane or holds
\* an equal value, and no active lane of `a` is NaN (both types).
C5_EqualityOverActiveLanes ==
    LET noNaN == \A j \in Active : ~IsNaN(a[j])
    IN  /\ kind = 3 =>
            \A i \in 1..4, f \in Floats :
                Eq3(a, [a EXCEPT ![i] = f]) <=>
                    (noNaN /\ (i = 4 \/ FEq(a[i], f)))
        /\ kind = 2 =>
            \A i \in DOMAIN a, f \in Floats :
                Eq2(a, [a EXCEPT ![i] = f]) <=>
                    (noNaN /\ (i > 2 \/ FEq(a[i], f)))

\* A Vector3 whose padding lane is not 0.0 and which still compares equal
\* to the vector new() builds from its x, y, z.
C5_Witness ==
    /\ kind = 3
    /\ IsNaN(a[4])
    /\ Eq3(a, New3(a[1], a[2], a[3]))
    /\ ~Eq3(a, New3(a[1], a[2], FAdd(a[3], One)))

\* C6: every constructor yields a value of the type's lane width (2 lanes
\* for Vector2, 4 for Vector3) whose getters return the given components
\* for new, 0.0 for zeros and 1.0 for ones, Vector3's padding being 0.0.
C6_Constructors ==
    /\ kind = 2 => DOMAIN a = 1..2
    /\ kind = 3 => DOMAIN a = 1..4
    /\ \A x \in Floats, y \in Floats :
          /\ X2(New2(x, y)) = x /\ Y2(New2(x, y)) = y
          /\ \A z \in Inputs :
                /\ X3(New3(x, y, z)) = x
                /\ Y3(New3(x, y, z)) = y
                /\ Z3(New3(y, x, z)) = z
                /\ New3(x, y, z)[4] = Zero
    /\ X2(Zeros2) = Zero /\ Y2(Zeros2) = Zero
    /\ X3(Zeros3) = Zero /\ Y3(Zeros3) = Zero /\ Z3(Zeros3) = Zero
    /\ X2(Ones2) = One /\ Y2(Ones2) = One
    /\ X3(Ones3) = One /\ Y3(Ones3) = One /\ Z3(Ones3) = One
    /\ Ones3[4] = Zero

\* C7: a setter changes exactly its own lane: the matching getter returns
\* the value passed, whatever float it is, and every other lane, the
\* Vector3 padding lane included, is as before (both types).
C7_SettersOneLane ==
    /\ kind = 3 =>
        \A f \in Floats :
            /\ SetX3(a, f) = <<f, a[2], a[3], a[4]>>
            /\ SetY3(a, f) = <<a[1], f, a[3], a[4]>>
            /\ SetZ3(a, f) = <<a[1], a[2], f, a[4]>>
            /\ X3(SetX3(a, f)) = f /\ Y3(SetY3(a, f)) = f
            /\ Z3(SetZ3(a, f)) = f
    /\ kind = 2 =>
        \A f \in Floats :
            LET sx == SetX2(a, f)
                sy == SetY2(a, f)
            IN  /\ X2(sx) = f /\ Y2(sy) = f
                /\ DOMAIN sx = DOMAIN a
                /\ DOMAIN sy = DOMAIN a
                /\ \A j \in DOMAIN a :
                      /\ j # 1 => sx[j] = a[j]
                      /\ j # 2 => sy[j] = a[j]

\* A Vector3 with a NaN padding lane and finite x, y: scalar arithmetic makes
\* the padding NaN only together with non-finite active lanes, so set_x and
\* set_y have written x and y since, and left the padding as it was.
C7_Witness ==
    /\ kind = 3
    /\ IsNaN(a[4])
    /\ a[1] = OneAndHalf
    /\ a[2] = FNeg(Half)
    /\ IsInf(a[3])

\* The IEEE-754 quotient of x by a zero z.
QuotientByZero(x, z) ==
    IF IsNaN(x) \/ IsZero(x) THEN NaN ELSE Inf(Xor(Sign(x), Sign(z)))

\* v is a vector of n float lanes.
IsVec(n, v) == DOMAIN v = 1..n /\ \A i \in 1..n : v[i] \in Floats

\* Lane arithmetic yields a float for every pair of floats.
LaneArithmeticTotal ==
    \A x \in Floats :
        /\ FNeg(x) \in Floats /\ FSqrt(x) \in Floats
        /\ \A y \in Floats :
              /\ FAdd(x, y) \in Floats /\ FSub(x, y) \in Floats
              /\ FMul(x, y) \in Floats /\ FDiv(x, y) \in Floats
              /\ FEq(x, y) \in BOOLEAN

\* C8: every operation returns a value for every input (lane arithmetic is
\* total, and each operation yields a vector of the type's width, a float
\* or a bool, also for a zero or NaN scalar), and v / 0.0 and v /= 0.0 hold
\* in each active lane the IEEE-754 quotient of the lane by zero: an
\* infinity for a non-zero lane, NaN for a zero (or NaN) lane.
C8_TotalAndDivByZero ==
    /\ LaneArithmeticTotal
    /\ kind = 3 =>
        /\ \A z \in {Zero, NegZero} :
              LET q == Div3(a, z)
                  r == DivAssign3(a, z)
              IN  /\ IsVec(4, q) /\ IsVec(4, r)
                  /\ \A i \in 1..3 :
                        /\ q[i] = QuotientByZero(a[i], z)
                        /\ r[i] = QuotientByZero(a[i], z)
        /\ \A s \in {NaN, PosInf} :
              /\ IsVec(4, Mul3(a, s)) /\ IsVec(4, MulLeft3(s, a))
              /\ IsVec(4, Div3(a, s)) /\ IsVec(4, MulAssign3(a, s))
              /\ IsVec(4, DivAssign3(a, s))
        /\ IsVec(4, Add3(a, a)) /\ IsVec(4, Sub3(a, a))
        /\ IsVec(4, AddAssign3(a, a)) /\ IsVec(4, SubAssign3(a, a))
        /\ IsVec(4, Cross3(a, a))
        /\ IsVec(4, Neg3(a)) /\ IsVec(4, Normalize3(a))
        /\ Dot3(a, a) \in Floats /\ Distance3(a, a) \in Floats
        /\ DistanceSquared3(a, a) \in Floats /\ Eq3(a, a) \in BOOLEAN
        /\ Magnitude3(a) \in Floats /\ MagnitudeSquared3(a) \in Floats
    /\ kind = 2 =>
        /\ \A z \in {Zero, NegZero} :
              LET q == Div2(a, z)
                  r == DivAssign2(a, z)
              IN  /\ IsVec(2, q) /\ IsVec(2, r)
                  /\ \A i \in 1..2 :
                        /\ q[i] = QuotientByZero(a[i], z)
                        /\ r[i] = QuotientByZero(a[i], z)
        /\ \A s \in {NaN, PosInf} :
              /\ IsVec(2, Mul2(a, s)) /\ IsVec(2, MulLeft2(s, a))
              /\ IsVec(2, Div2(a, s)) /\ IsVec(2, MulAssign2(a, s))
              /\ IsVec(2, DivAssign2(a, s))
        /\ IsVec(2, Add2(a, a)) /\ IsVec(2, Sub2(a, a))
        /\ IsVec(2, AddAssign2(a, a)) /\ IsVec(2, SubAssign2(a, a))
        /\ IsVec(2, Neg2(a)) /\ IsVec(2, Normalize2(a))
        /\ Dot2(a, a) \in Floats /\ Distance2(a, a) \in Floats
        /\ DistanceSquared2(a, a) \in Floats /\ Cross2(a, a) \in Floats
        /\ Eq2(a, a) \in BOOLEAN
        /\ Magnitude2(a) \in Floats /\ MagnitudeSquared2(a) \in Floats

\* A Vector3 as division by zero leaves it: an infinite lane (from a
\* non-zero lane), NaN lanes (from zero lanes) and a NaN padding lane.
C8_Witness ==
    /\ kind = 3
    /\ a = <<NegInf, NaN, PosInf, NaN>>
    /\ \E x \in Floats : Div3(New3(x, Zero, FNeg(x)), Zero) = a
    /\ \E x \in Floats : DivAssign3(New3(x, Zero, FNeg(x)), Zero) = a

\* C9 as stated: a + (-a) == zeros() for all vectors a (both types).
C9_AddNegIsZeros ==
    /\ kind = 3 => Eq3(Add3(a, Neg3(a)), Zeros3)
    /\ kind = 2 => Eq2(Add2(a, Neg2(a)), Zeros2)

\* C9 amended: a + (-a) == zeros() for all vectors a whose active lanes are
\* finite (both types).
C9_AddNegIsZerosFinite ==
    FiniteActive =>
        /\ kind = 3 => Eq3(Add3(a, Neg3(a)), Zeros3)
        /\ kind = 2 => Eq2(Add2(a, Neg2(a)), Zeros2)

\* A Vector3 with finite non-zero x, y, z, for which a + (-a) == zeros().
C9_Witness ==
    /\ kind = 3
    /\ FiniteActive
    /\ NonZeroActive
    /\ a[3] = OneAndHalf
    /\ Eq3(Add3(a, Neg3(a)), Zeros3)

\* C10 as stated: (a * s) / s == a for all vectors a and scalars s != 0
\* (both types).
C10_MulDivRoundTrip ==
    \A s \in Floats :
        ~FEq(s, Zero) =>
            /\ kind = 3 => Eq3(Div3(Mul3(a, s), s), a)
            /\ kind = 2 => Eq2(Div2(Mul2(a, s), s), a)

\* The product x * s is finite and exact: nothing is rounded away and
\* nothing overflows or underflows.
ExactProductF(x, s) ==
    /\ IsFinite(x) /\ IsFinite(s) /\ IsFinite(FMul(x, s))
    /\ MagF(FMul(x, s)) * Pow2(FracBits) = MagF(x) * MagF(s)

ExactProductT == [x \in Floats |-> [s \in Floats |-> ExactProductF(x, s)]]

ExactProduct(x, s) == ExactProductT[x][s]

\* 1/s is finite and exact (s = +-2^k, the reciprocal in range).
ExactReciprocalF(s) ==
    /\ IsFinite(s) /\ ~IsZero(s) /\ IsFinite(FDiv(One, s))
    /\ MagF(FDiv(One, s)) * MagF(s) = Pow2(FracBits) * Pow2(FracBits)

ExactReciprocalT == [s \in Floats |-> ExactReciprocalF(s)]

ExactReciprocal(s) == ExactReciprocalT[s]

\* C10 amended: (a * s) / s == a for every finite scalar s != 0 and vector a
\* such that every active lane's product with s is finite and exact, and,
\* for Vector3 (whose / multiplies by 1/s), 1/s is finite and exact too.
C10_MulDivRoundTripExact ==
    \A s \in Floats :
        (~IsZero(s) /\ \A i \in Active : ExactProduct(a[i], s)) =>
            /\ (kind = 3 /\ ExactReciprocal(s)) =>
                  Eq3(Div3(Mul3(a, s), s), a)
            /\ kind = 2 => Eq2(Div2(Mul2(a, s), s), a)

\* A Vector3 with non-zero lanes and a scalar other than +-1 that meet the
\* conditions, the round trip returning the vector.
C10_Witness ==
    /\ kind = 3
    /\ NonZeroActive
    /\ \E s \in Floats :
          /\ AbsF(s) # One
          /\ ~IsZero(s)
          /\ \A i \in Active : ExactProduct(a[i], s)
          /\ ExactReciprocal(s)
          /\ Eq3(Div3(Mul3(a, s), s), a)

\* A finite operand, and one with an infinite and a NaN lane.
FiniteProbe3 == New3(OneAndHalf, Zero, FNeg(One))

NonFiniteProbe3 == New3(PosInf, Half, NaN)

\* C11: cross is anticommutative: for Vector3, a.cross(b) and -(b.cross(a))
\* hold the same value in x, y and z (a lane is NaN in both or in neither)
\* and compare == as vectors whenever no lane of the product is NaN; for
\* Vector2 the scalars a.cross(b) and -(b.cross(a)) are the same value, and
\* == whenever the product is not NaN.
C11_CrossAnticommutative ==
    /\ kind = 3 =>
        \A b \in {FiniteProbe3, NonFiniteProbe3} :
            LET ab == Cross3(a, b)
                nba == Neg3(Cross3(b, a))
            IN  /\ \A i \in 1..3 : SameVal(ab[i], nba[i])
                /\ (\A i \in 1..3 : ~IsNaN(ab[i])) => Eq3(ab, nba)
    /\ kind = 2 =>
        \A b \in Operands2 :
            LET ab == Cross2(a, b)
                ba == Cross2(b, a)
            IN  /\ SameVal(ab, FNeg(ba)) /\ SameVal(ba, FNeg(ab))
                /\ ~IsNaN(ab) => FEq(ab, FNeg(ba)) /\ FEq(ba, FNeg(ab))

\* A Vector3 whose cross product with an operand has three finite non-zero
\* lanes, equal to the negated product in the other order.
C11_Witness ==
    /\ kind = 3
    /\ \E b \in {FiniteProbe3, NonFiniteProbe3} :
          /\ \A i \in 1..3 :
                IsFinite(Cross3(a, b)[i]) /\ ~IsZero(Cross3(a, b)[i])
          /\ Eq3(Cross3(a, b), Neg3(Cross3(b, a)))

\* The operands all of whose lanes are finite.
FiniteOperands3 == {b \in Operands3 : \A i \in 1..3 : IsFinite(b[i])}

FiniteOperands2 == {b \in Operands2 : \A i \in 1..2 : IsFinite(b[i])}

\* C12 as stated: for all finite vectors a, b, c: a + b == b + a and
\* (a + b) + c == a + (b + c) (both types).
C12_AddCommutativeAssociative ==
    FiniteActive =>
        /\ kind = 3 =>
            \A b \in FiniteOperands3, c \in FiniteOperands3 :
                /\ Eq3(Add3(a, b), Add3(b, a))
                /\ Eq3(Add3(Add3(a, b), c), Add3(a, Add3(b, c)))
        /\ kind = 2 =>
            \A b \in FiniteOperands2, c \in FiniteOperands2 :
                /\ Eq2(Add2(a, b), Add2(b, a))
                /\ Eq2(Add2(Add2(a, b), c), Add2(a, Add2(b, c)))

\* The sum x + y is finite and exact: nothing is rounded away and nothing
\* overflows.
ExactSumF(x, y) ==
    /\ IsFinite(x) /\ IsFinite(y) /\ IsFinite(FAdd(x, y))
    /\ SignedMag(FAdd(x, y)) = SignedMag(x) + SignedMag(y)

ExactSumT == [x \in Floats |-> [y \in Floats |-> ExactSumF(x, y)]]

ExactSum(x, y) == ExactSumT[x][y]

\* C12 amended: for all finite vectors a, b, c: a + b == b + a, and
\* (a + b) + c == a + (b + c) whenever the inner sums a + b and b + c are
\* finite and exact in every active lane (both types).
C12_AddAssociativeWhenExact ==
    FiniteActive =>
        /\ kind = 3 =>
            \A b \in FiniteOperands3 :
                /\ Eq3(Add3(a, b), Add3(b, a))
                /\ (\A i \in 1..3 : ExactSum(a[i], b[i])) =>
                      \A c \in FiniteOperands3 :
                          (\A i \in 1..3 : ExactSum(b[i], c[i])) =>
                              Eq3(Add3(Add3(a, b), c), Add3(a, Add3(b, c)))
        /\ kind = 2 =>
            \A b \in FiniteOperands2 :
                /\ Eq2(Add2(a, b), Add2(b, a))
                /\ (\A i \in 1..2 : ExactSum(a[i], b[i])) =>
                      \A c \in FiniteOperands2 :
                          (\A i \in 1..2 : ExactSum(b[i], c[i])) =>
                              Eq2(Add2(Add2(a, b), c), Add2(a, Add2(b, c)))

\* A finite Vector3 with non-zero lanes, other than the operands, whose
\* inner sums with them are exact, the two groupings agreeing on a non-zero
\* total.
C12_Witness ==
    /\ kind = 3
    /\ FiniteActive
    /\ NonZeroActive
    /\ \E b \in FiniteOperands3, c \in FiniteOperands3 :
          /\ a # b /\ a # c
          /\ \A i \in 1..3 : ExactSum(a[i], b[i]) /\ ExactSum(b[i], c[i])
          /\ \E i \in 1..3 : ~IsZero(Add3(Add3(a, b), c)[i])
          /\ Eq3(Add3(a, b), Add3(b, a))
          /\ Eq3(Add3(Add3(a, b), c), Add3(a, Add3(b, c)))

\* C13: dot is symmetric: a.dot(b) and b.dot(a) are the same value for all
\* vectors a, b of one type: both NaN, or else equal under f64 == (both
\* types; a Vector3's padding lane takes part in both orders alike).
C13_DotSymmetric ==
    /\ kind = 3 =>
        \A b \in {FiniteProbe3, NonFiniteProbe3} :
            LET ab == Dot3(a, b)
                ba == Dot3(b, a)
            IN  IF IsNaN(ab) THEN IsNaN(ba) ELSE FEq(ab, ba)
    /\ kind = 2 =>
        \A b \in Operands2 :
            LET ab == Dot2(a, b)
                ba == Dot2(b, a)
            IN  IF IsNaN(ab) THEN IsNaN(ba) ELSE FEq(ab, ba)

\* A Vector3 and an operand with other lanes whose dot product is finite and
\* non-zero, and the same in both orders.
C13_Witness ==
    /\ kind = 3
    /\ \E b \in {FiniteProbe3, NonFiniteProbe3} :
          /\ \A i \in 1..3 : ~SameVal(a[i], b[i])
          /\ IsFinite(Dot3(a, b)) /\ ~IsZero(Dot3(a, b))
          /\ FEq(Dot3(a, b), Dot3(b, a))

\* m is the IEEE-754 square root of x: NaN for NaN and for negative x, x for
\* a zero and for +infinity, and otherwise the non-negative float nearest to
\* the real root (the midpoint to any other float lies on the far side).
IsSqrtOfF(m, x) ==
    IF IsNaN(x) THEN IsNaN(m)
    ELSE IF IsZero(x) THEN m = x
    ELSE IF Sign(x) = 1 THEN IsNaN(m)
    ELSE IF IsInf(x) THEN m = PosInf
    ELSE /\ IsFinite(m) /\ Sign(m) = 0
         /\ \A r \in Mags :
               LET mid2 == (r + MagF(m)) * (r + MagF(m))
                   x4 == 4 * MagF(x) * Pow2(FracBits)
               IN  /\ r < MagF(m) => mid2 <= x4
                   /\ r > MagF(m) => mid2 >= x4

IsSqrtOfT == [m \in Floats |-> [x \in Floats |-> IsSqrtOfF(m, x)]]

IsSqrtOf(m, x) == IsSqrtOfT[m][x]

\* C14: magnitude_squared(a) returns the same value as dot(a, a) (both NaN,
\* or equal), and magnitude(a) is the square root of that value (both
\* types).
C14_MagnitudeFromDot ==
    /\ kind = 3 =>
        /\ SameVal(MagnitudeSquared3(a), Dot3(a, a))
        /\ IsSqrtOf(Magnitude3(a), Dot3(a, a))
    /\ kind = 2 =>
        /\ SameVal(MagnitudeSquared2(a), Dot2(a, a))
        /\ IsSqrtOf(Magnitude2(a), Dot2(a, a))

\* A Vector3 with non-zero lanes whose squared magnitude is finite and not
\* the square of a float: its magnitude is a rounded root.
C14_Witness ==
    /\ kind = 3
    /\ NonZeroActive
    /\ IsFinite(MagnitudeSquared3(a))
    /\ FEq(MagnitudeSquared3(a), Dot3(a, a))
    /\ IsFinite(Magnitude3(a))
    /\ \A r \in Floats : ~(ExactProduct(r, r) /\ FMul(r, r) = Dot3(a, a))
    /\ IsSqrtOf(Magnitude3(a), Dot3(a, a))

\* The right-handed unit vectors: x cross y is z, y cross z is x, z cross x
\* is y, and for Vector2 the cross of the x and y unit vectors is 1.0.
CrossOfUnitVectors ==
    LET ex == New3(One, Zero, Zero)
        ey == New3(Zero, One, Zero)
        ez == New3(Zero, Zero, One)
    IN  /\ Eq3(Cross3(ex, ey), ez) /\ Cross3(ex, ey)[4] = Zero
        /\ Eq3(Cross3(ey, ez), ex)
        /\ Eq3(Cross3(ez, ex), ey)
        /\ FEq(Cross2(New2(One, Zero), New2(Zero, One)), One)

\* C15: for Vector3, a.cross(b) is the vector
\* (a.y*b.z - a.z*b.y, a.z*b.x - a.x*b.z, a.x*b.y - a.y*b.x) with padding
\* lane +0.0, whatever the padding lanes of a and b hold; for Vector2,
\* a.cross(b) is the scalar a.x*b.y - a.y*b.x.  Checked with the state's
\* vector as receiver and as argument.
C15_CrossStandardFormula ==
    /\ CrossOfUnitVectors
    /\ kind = 3 =>
        \A b \in {FiniteProbe3, NonFiniteProbe3} :
            /\ Cross3(a, b) =
                  << FSub(FMul(Y3(a), Z3(b)), FMul(Z3(a), Y3(b))),
                     FSub(FMul(Z3(a), X3(b)), FMul(X3(a), Z3(b))),
                     FSub(FMul(X3(a), Y3(b)), FMul(Y3(a), X3(b))),
                     Zero >>
            /\ Cross3(b, a) =
                  << FSub(FMul(Y3(b), Z3(a)), FMul(Z3(b), Y3(a))),
                     FSub(FMul(Z3(b), X3(a)), FMul(X3(b), Z3(a))),
                     FSub(FMul(X3(b), Y3(a)), FMul(Y3(b), X3(a))),
                     Zero >>
    /\ kind = 2 =>
        \A b \in Operands2 \cup {a} :
            /\ Cross2(a, b) = FSub(FMul(a[1], b[2]), FMul(a[2], b[1]))
            /\ Cross2(b, a) = FSub(FMul(b[1], a[2]), FMul(b[2], a[1]))

\* A Vector3 whose padding lane is NaN and whose cross product with an
\* operand has finite lanes, not all zero, and padding +0.0.
C15_Witness ==
    /\ kind = 3
    /\ IsNaN(a[4])
    /\ \E b \in {FiniteProbe3, NonFiniteProbe3} :
          /\ \A i \in 1..3 : IsFinite(Cross3(a, b)[i])
          /\ \E i \in 1..3 : ~IsZero(Cross3(a, b)[i])
          /\ Cross3(a, b)[4] = Zero
          /\ Cross3(b, a)[4] = Zero

\* The distance between the origin and a unit vector is 1.0, and so is its
\* square.
DistanceToUnitVector ==
    /\ FEq(Distance3(Zeros3, New3(Zero, One, Zero)), One)
    /\ FEq(DistanceSquared3(New3(Zero, One, Zero), Zeros3), One)
    /\ FEq(Distance2(Zeros2, New2(Zero, One)), One)
    /\ FEq(DistanceSquared2(New2(Zero, One), Zeros2), One)

EqualFloats(c) ==
    IF IsNaN(c) THEN {} ELSE IF IsZero(c) THEN {Zero, NegZero} ELSE {c}

\* C17: == is a congruence for the observing operations of Vector3: for the
\* state's vector u and every vector v that new() builds with u == v (no NaN
\* active lane), u.dot(w) and v.dot(w) are the same value for every operand
\* w, and so are the magnitude_squared of u and v, u.distance_squared(w) and
\* v.distance_squared(w), and the x, y, z of u.normalize() and
\* v.normalize().
C17_EqualityIsCongruence ==
    kind = 3 =>
        \A x \in EqualFloats(a[1]), y \in EqualFloats(a[2]),
           z \in EqualFloats(a[3]) :
            LET v == New3(x, y, z)
            IN  Eq3(a, v) =>
                  /\ SameVal(MagnitudeSquared3(a), MagnitudeSquared3(v))
                  /\ \A i \in 1..3 :
                        SameVal(Normalize3(a)[i], Normalize3(v)[i])
                  /\ \A w \in Operands3 :
                        /\ SameVal(Dot3(a, w), Dot3(v, w))
                        /\ SameVal(DistanceSquared3(a, w),
                                   DistanceSquared3(v, w))

=============================================================================
